---- MODULE Spec2Model ----
(***************************************************************************)
(* pg_page_verification: the walk of a PostgreSQL base directory and the   *)
(* page-by-page checksum scan of every segment file in it.                 *)
(*                                                                         *)
(* A C string is a sequence of one-character strings; a path is a C        *)
(* string, resolved against the process's working directory into a         *)
(* sequence of names, which is the key of the file system fs.              *)
(***************************************************************************)
EXTENDS Integers, Sequences, FiniteSets, TLC

\* ------------------------------------------------------------- constants

BLCKSZ == 8192

RELSEG_SIZE == 131072

MAX_DIR_LENGTH == 256

\* ---------------------------------------------------------------- bounds

\* Full pages in a segment file of the scanned trees.
MaxPages == 4

\* Levels of subdirectories below the base directory.
MaxDepth == 1

\* ------------------------------------------------------------- C strings

DigitSeq == <<"0", "1", "2", "3", "4", "5", "6", "7", "8", "9">>

isdigit(c) == \E i \in 1..10 : DigitSeq[i] = c

DigitVal(c) == (CHOOSE i \in 1..10 : DigitSeq[i] = c) - 1

\* filename[k] of C, k from 0; the byte at strlen(filename) is the NUL.
CharAt(s, k) == IF k >= 0 /\ k < Len(s) THEN s[k + 1] ELSE "NUL"

RECURSIVE AtoiFrom(_, _, _)
AtoiFrom(s, i, acc) ==
  IF i <= Len(s) /\ isdigit(s[i])
  THEN AtoiFrom(s, i + 1, acc * 10 + DigitVal(s[i]))
  ELSE acc

\* atoi: the value of the leading run of decimal digits (no sign or blank
\* can lead the suffix parse_segment_number hands over).
atoi(s) == AtoiFrom(s, 1, 0)

\* strstr(hay, needle) != NULL
strstr(hay, needle) ==
  \E i \in 0..(Len(hay) - Len(needle)) :
    \A j \in 1..Len(needle) : hay[i + j] = needle[j]

\* strcmp(a, b) == 0
streq(a, b) == a = b

PG_INTERNAL_INIT ==
  <<"p", "g", "_", "i", "n", "t", "e", "r", "n", "a", "l", ".", "i", "n", "i", "t">>

DOT == <<".">>

DOTDOT == <<".", ".">>

\* ------------------------------------------------- parse_segment_number

\* The while loop: the index the loop stops at, or -1 when it ran off the
\* front of the name (the function then returns 0).
RECURSIVE ScanBack(_, _)
ScanBack(filename, segmentnumber) ==
  IF isdigit(CharAt(filename, segmentnumber))
  THEN IF segmentnumber - 1 < 0 THEN -1
       ELSE ScanBack(filename, segmentnumber - 1)
  ELSE segmentnumber

\* A variant that parses a name of digits only as a segment number.
parse_segment_number_whole(filename) ==
  LET k == ScanBack(filename, Len(filename) - 1)
  IN  atoi(SubSeq(filename, k + 2, Len(filename)))

parse_segment_number(filename) ==
  LET k == ScanBack(filename, Len(filename) - 1)
  IN  IF k < 0 THEN 0
      ELSE atoi(SubSeq(filename, k + 2, Len(filename)))

\* ------------------------------------------------------ pg_checksum_page

RECURSIVE Xor(_, _)
Xor(a, b) ==
  IF a = 0 THEN b
  ELSE IF b = 0 THEN a
  ELSE (((a % 2) + (b % 2)) % 2) + 2 * Xor(a \div 2, b \div 2)

\* pg_checksum_page(page, blkno): the page's block hash (pg_checksum_block
\* over the page with pd_checksum zeroed, a 32-bit value carried by the page
\* as page.hash) mixed with the block number and reduced to 1..65535.
pg_checksum_page(page, blkno) == (Xor(page.hash, blkno) % 65535) + 1

\* ----------------------------------------------------- is_page_corrupted

\* segmentBlockOffset + blkno, the block number handed to pg_checksum_page.
\* Both are uint32; the segment numbers of the scanned names keep the sum
\* far below 2^31, so no arithmetic here wraps.
AbsoluteBlock(filename, blkno) ==
  (RELSEG_SIZE * parse_segment_number(filename)) + blkno

\* A variant without the exemption of an unset (zero) checksum.
is_page_corrupted_nozero(page, blkno, filename) ==
  page.pd_checksum # pg_checksum_page(page, AbsoluteBlock(filename, blkno))

is_page_corrupted(page, blkno, filename) ==
  LET checksum == pg_checksum_page(page, AbsoluteBlock(filename, blkno))
  IN  page.pd_checksum # 0 /\ page.pd_checksum # checksum

\* ----------------------------------------------------------------- paths

Last(s) == s[Len(s)]

\* The names of a path, split at "/" (empty names dropped).
RECURSIVE SplitFrom(_, _, _, _)
SplitFrom(path, i, cur, acc) ==
  IF i > Len(path)
  THEN IF cur = <<>> THEN acc ELSE Append(acc, cur)
  ELSE IF path[i] = "/"
       THEN SplitFrom(path, i + 1, <<>>, IF cur = <<>> THEN acc ELSE Append(acc, cur))
       ELSE SplitFrom(path, i + 1, Append(cur, path[i]), acc)

RECURSIVE Walk(_, _)
Walk(at, names) ==
  IF names = <<>> THEN at
  ELSE LET n == Head(names)
       IN  IF n = DOT THEN Walk(at, Tail(names))
           ELSE IF n = DOTDOT
                THEN Walk(IF at = <<>> THEN at ELSE SubSeq(at, 1, Len(at) - 1),
                          Tail(names))
                ELSE Walk(Append(at, n), Tail(names))

\* The kernel's path resolution: an absolute path starts at the root, any
\* other at the working directory.
Resolve(wd, path) ==
  Walk(IF path # <<>> /\ path[1] = "/" THEN <<>> ELSE wd, SplitFrom(path, 1, <<>>, <<>>))

\* snprintf(new_dirpath, MAX_DIR_LENGTH, "%s/%s", dirpath, d_name)
snprintf_path(dirpath, name) ==
  LET full == dirpath \o <<"/">> \o name
  IN  IF Len(full) > MAX_DIR_LENGTH - 1 THEN SubSeq(full, 1, MAX_DIR_LENGTH - 1)
      ELSE full

\* main, case 'D': datadir is optarg with "base" appended.
DataDir(optarg) ==
  IF Last(optarg) = "/" THEN optarg \o <<"b", "a", "s", "e">>
  ELSE optarg \o <<"/", "b", "a", "s", "e">>

\* ----------------------------------------------------------------- state

VARIABLES
  fs,       \* the file system: resolved path -> node
  optarg,   \* the argument of -D
  datadir,  \* main's datadir
  cwd,      \* the process's working directory (a resolved path)
  pc,       \* where the program is
  stack,    \* the frames of scan_directory, innermost last
  seg,      \* the locals of the running scan_segmentfile
  nfd,      \* file descriptors open
  ndir,     \* DIR handles open
  total,    \* main's corrupted_pages_found
  status,   \* the exit status, -1 while the process runs
  out,      \* what main printed last
  log,      \* one record per finished scan_segmentfile call
  run,      \* the number of this run of the program
  prev      \* the total of the run before

vars ==
  <<fs, optarg, datadir, cwd, pc, stack, seg, nfd, ndir, total, status, out, log,
    run, prev>>

\* ----------------------------------------------------------- file system

Exists(p) == p \in DOMAIN fs

\* lstat's st_mode as the code reads it: "dir", "reg" or "other".
Kind(p) == fs[p].kind

\* lstat(path, &statbuf), its return value ignored: the modes statbuf can
\* hold afterwards. A failed lstat leaves statbuf as it was, and a statbuf
\* never written holds whatever the stack held.
LstatModes(wd, path, old) ==
  LET p == Resolve(wd, path)
  IN  IF Exists(p) THEN {Kind(p)}
      ELSE IF old = "uninit" THEN {"dir", "reg", "other"}
      ELSE {old}

\* opendir(path) returns a handle.
CanList(p) == Exists(p) /\ Kind(p) = "dir" /\ fs[p].listable

\* open(path, O_RDONLY) returns a descriptor.
CanOpen(p) == Exists(p) /\ Kind(p) # "other" /\ fs[p].openable

\* read(fd, page, BLCKSZ) after k full pages were read: BLCKSZ for a full
\* page, the bytes left at the end of the file, 0 at its end, -1 on error.
ReadResult(p, k) ==
  IF Kind(p) = "dir" \/ fs[p].errAt = k THEN -1
  ELSE IF k < Len(fs[p].pages) THEN BLCKSZ
  ELSE IF k = Len(fs[p].pages) THEN fs[p].tail
  ELSE 0

\* ------------------------------------------------------ scan_segmentfile

NoSeg ==
  [filename |-> <<>>, dirpath |-> <<>>, path |-> <<>>, blkno |-> 0, corrupted |-> 0,
   reads |-> <<>>, checks |-> <<>>]

\* if (n > 0) corrupted++, without the short read counted.
AfterLoop_ignore(n, corrupted) == corrupted

\* if (n > 0) corrupted++
AfterLoop(n, corrupted) == IF n > 0 THEN corrupted + 1 ELSE corrupted

\* close(fd), forgotten.
CloseFd_leak(fds) == fds

\* close(fd)
CloseFd(fds) == fds - 1

\* closedir(d)
CloseDir(dirs) == dirs - 1

Top == stack[Len(stack)]

SetTop(f) == [stack EXCEPT ![Len(stack)] = f]

LogEntry(how, path, result) ==
  [lister |-> Top.real, name |-> seg.filename, how |-> how, path |-> path,
   reads |-> seg.reads, checks |-> seg.checks, result |-> result, run |-> run]

\* The entry of scan_segmentfile: the pg_internal.init exclusion and open.
SegFile ==
  /\ pc = "segfile"
  /\ IF strstr(seg.filename, PG_INTERNAL_INIT)
     THEN /\ log' = Append(log, LogEntry("skipped", <<>>, 0))
          /\ pc' = "readdir"
          /\ seg' = NoSeg
          /\ UNCHANGED <<stack, nfd>>
     ELSE LET p == Resolve(cwd, seg.filename)
          IN  IF CanOpen(p)
              THEN /\ nfd' = nfd + 1
                   /\ seg' = [seg EXCEPT !.path = p]
                   /\ pc' = "read"
                   /\ UNCHANGED <<stack, log>>
              ELSE /\ log' = Append(log, LogEntry("openfail", <<>>, 1))
                   /\ stack' = SetTop([Top EXCEPT !.found = @ + 1])
                   /\ pc' = "readdir"
                   /\ seg' = NoSeg
                   /\ UNCHANGED nfd
  /\ UNCHANGED <<fs, optarg, datadir, cwd, ndir, total, status, out, run, prev>>

\* One turn of the read loop, and the test after it.
Read ==
  /\ pc = "read"
  /\ LET n == ReadResult(seg.path, seg.blkno)
     IN  IF n = BLCKSZ
         THEN LET page == fs[seg.path].pages[seg.blkno + 1]
                  bad == is_page_corrupted(page, seg.blkno, seg.filename)
              IN  /\ seg' = [seg EXCEPT
                       !.reads = Append(@, n),
                       !.checks = Append(@, [page |-> page,
                                             blk |-> AbsoluteBlock(seg.filename, seg.blkno),
                                             corrupt |-> bad]),
                       !.corrupted = IF bad THEN @ + 1 ELSE @,
                       !.blkno = @ + 1]
                  /\ pc' = "read"
         ELSE /\ seg' = [seg EXCEPT !.reads = Append(@, n),
                                    !.corrupted = AfterLoop(n, @)]
              /\ pc' = "close"
  /\ UNCHANGED <<fs, optarg, datadir, cwd, stack, nfd, ndir, total, status, out, log,
                 run, prev>>

\* close(fd); return corrupted, added to the caller's corrupt_pages_found.
Close ==
  /\ pc = "close"
  /\ nfd' = CloseFd(nfd)
  /\ log' = Append(log, LogEntry("scanned", seg.path, seg.corrupted))
  /\ stack' = SetTop([Top EXCEPT !.found = @ + seg.corrupted])
  /\ seg' = NoSeg
  /\ pc' = "readdir"
  /\ UNCHANGED <<fs, optarg, datadir, cwd, ndir, total, status, out, run, prev>>

\* The read loop of scan_segmentfile run to its end on the file at p.
RECURSIVE ScanLoop(_, _, _, _)
ScanLoop(p, filename, blkno, corrupted) ==
  LET n == ReadResult(p, blkno)
  IN  IF n = BLCKSZ
      THEN ScanLoop(p, filename, blkno + 1,
                    IF is_page_corrupted(fs[p].pages[blkno + 1], blkno, filename)
                    THEN corrupted + 1 ELSE corrupted)
      ELSE AfterLoop(n, corrupted)

\* What scan_segmentfile(filename, dirpath) returns when filename names
\* the file at p.
ScanSegmentFile(filename, p) ==
  IF strstr(filename, PG_INTERNAL_INIT) THEN 0
  ELSE IF ~CanOpen(p) THEN 1
  ELSE ScanLoop(p, filename, 0, 0)

\* -------------------------------------------------------- scan_directory

Frame(dirpath) ==
  [dirpath |-> dirpath, d |-> <<>>, real |-> <<>>, statbuf |-> "uninit", found |-> 0]

\* d = opendir(dirpath); if (d) chdir(dirpath)
OpenDir ==
  /\ pc = "opendir"
  /\ LET p == Resolve(cwd, Top.dirpath)
     IN  IF CanList(p)
         THEN /\ stack' = SetTop([Top EXCEPT !.d = fs[p].listing, !.real = p])
              /\ ndir' = ndir + 1
              /\ cwd' = p
              /\ pc' = "readdir"
         ELSE /\ pc' = "ret"
              /\ UNCHANGED <<stack, ndir, cwd>>
  /\ UNCHANGED <<fs, optarg, datadir, seg, nfd, total, status, out, log, run, prev>>

\* One turn of the readdir loop, or closedir after the last entry.
ReadDir ==
  /\ pc = "readdir"
  /\ IF Top.d = <<>>
     THEN /\ ndir' = CloseDir(ndir)
          /\ pc' = "ret"
          /\ UNCHANGED <<stack, seg>>
     ELSE LET name == Head(Top.d)
          IN  \E m \in LstatModes(cwd, name, Top.statbuf) :
                LET f == [Top EXCEPT !.d = Tail(@), !.statbuf = m]
                IN  /\ ndir' = ndir
                    /\ IF m = "dir" /\ ~(streq(DOT, name) \/ streq(DOTDOT, name))
                       THEN /\ stack' = Append(SetTop(f), Frame(snprintf_path(Top.dirpath, name)))
                            /\ pc' = "opendir"
                            /\ seg' = seg
                       ELSE IF m = "reg"
                       THEN /\ stack' = SetTop(f)
                            /\ seg' = [NoSeg EXCEPT !.filename = name, !.dirpath = Top.dirpath]
                            /\ pc' = "segfile"
                       ELSE /\ stack' = SetTop(f)
                            /\ pc' = "readdir"
                            /\ seg' = seg
  /\ UNCHANGED <<fs, optarg, datadir, cwd, nfd, total, status, out, log, run, prev>>

\* return corrupt_pages_found, to the calling scan_directory or to main.
Return ==
  /\ pc = "ret"
  /\ IF Len(stack) = 1
     THEN /\ total' = Top.found
          /\ stack' = <<>>
          /\ pc' = "report"
     ELSE /\ stack' = [SubSeq(stack, 1, Len(stack) - 1) EXCEPT
                         ![Len(stack) - 1].found = @ + Top.found]
          /\ pc' = "readdir"
          /\ total' = total
  /\ UNCHANGED <<fs, optarg, datadir, cwd, seg, nfd, ndir, status, out, log, run, prev>>

\* ------------------------------------------------------------------ main

\* The working directory the program is started in.
StartDir == <<>>

\* -D, lstat(datadir), and either exit(1) or the call of scan_directory.
Main ==
  /\ pc = "main"
  /\ datadir' = DataDir(optarg)
  /\ \E m \in LstatModes(cwd, DataDir(optarg), "uninit") :
       IF m # "dir"
       THEN /\ status' = 1
            /\ out' = "ERROR: not a directory"
            /\ pc' = "exit"
            /\ stack' = stack
       ELSE /\ stack' = <<Frame(DataDir(optarg))>>
            /\ pc' = "opendir"
            /\ UNCHANGED <<status, out>>
  /\ UNCHANGED <<fs, optarg, cwd, seg, nfd, ndir, total, log, run, prev>>

\* The report and exit status after the walk.
Report ==
  /\ pc = "report"
  /\ IF total > 0
     THEN out' = "CORRUPTION FOUND" /\ status' = 1
     ELSE out' = "NO CORRUPTION FOUND" /\ status' = 0
  /\ pc' = "exit"
  /\ UNCHANGED <<fs, optarg, datadir, cwd, stack, seg, nfd, ndir, total, log, run, prev>>

\* --------------------------------------------------- the scanned trees

DirNode(listing, listable) ==
  [kind |-> "dir", listing |-> listing, listable |-> listable, openable |-> TRUE,
   pages |-> <<>>, tail |-> 0, errAt |-> -1]

RegNode(openable, pages, tail, errAt) ==
  [kind |-> "reg", listing |-> <<>>, listable |-> FALSE, openable |-> openable,
   pages |-> pages, tail |-> tail, errAt |-> errAt]

\* A symbolic link, a socket, a device.
OtherNode ==
  [kind |-> "other", listing |-> <<>>, listable |-> FALSE, openable |-> TRUE,
   pages |-> <<>>, tail |-> 0, errAt |-> -1]

\* File names with the segment number PostgreSQL gives them: <relfilenode>
\* is segment 0 of a relation, <relfilenode>.<n> its segment n, and the
\* free space map and visibility map forks carry _fsm and _vm.
FileNames ==
  { [name |-> <<"5">>, segno |-> 0],
    [name |-> <<"1">>, segno |-> 0],
    [name |-> <<"7", ".", "1">>, segno |-> 1],
    [name |-> <<"7", ".", "1", "2">>, segno |-> 12],
    [name |-> <<"7", "_", "f", "s", "m">>, segno |-> 0],
    [name |-> <<"7", "_", "v", "m">>, segno |-> 0],
    [name |-> <<"7", "_", "f", "s", "m", ".", "1">>, segno |-> 1],
    [name |-> <<"t", "3", "_", "7">>, segno |-> 0],
    [name |-> PG_INTERNAL_INIT, segno |-> 0] }

N5 == [name |-> <<"5">>, segno |-> 0]

N7_1 == [name |-> <<"7", ".", "1">>, segno |-> 1]

NameA == <<"a">>

NameL == <<"l">>

NameD == <<"d">>

NameBase == <<"b", "a", "s", "e">>

BasePath == <<NameD, NameBase>>

\* The block hash of the i-th page of a file.
PageHash(i) == 1528772329 + i * 40503

\* The i-th page (from 0) of segment segno, its checksum unset ("zero"),
\* as the server wrote it ("good") or damaged ("bad").
MkPage(segno, i, v) ==
  LET good == pg_checksum_page([hash |-> PageHash(i)], segno * RELSEG_SIZE + i)
  IN  [hash |-> PageHash(i),
       pd_checksum |-> IF v = "zero" THEN 0
                       ELSE IF v = "good" THEN good
                       ELSE (good % 65535) + 1]

MkPages(segno, vs) == [i \in 1..Len(vs) |-> MkPage(segno, i - 1, vs[i])]

\* The pages of a file of n pages: its last two of every kind, the pages
\* before them as the server wrote them.
PageVariants ==
  UNION { { [i \in 1..n |-> IF i <= n - 2 THEN "good"
                           ELSE t[IF n > 2 THEN i - (n - 2) ELSE i]] :
            t \in [1..(IF n > 2 THEN 2 ELSE n) -> {"zero", "good", "bad"}] } :
          n \in 0..MaxPages }

\* Every content of a regular file within the bounds.
Contents(segno) ==
  {RegNode(FALSE, <<>>, 0, -1)}
  \cup {RegNode(TRUE, MkPages(segno, vs), t, -1) :
          vs \in PageVariants, t \in {0, 1, BLCKSZ - 1}}
  \cup UNION {{RegNode(TRUE, MkPages(segno, vs), 0, k) : k \in 0..Len(vs)} :
                vs \in PageVariants}

Perms(S) ==
  {s \in [1..Cardinality(S) -> S] : \A i, j \in 1..Cardinality(S) : i # j => s[i] # s[j]}

Min(a, b) == IF a < b THEN a ELSE b

\* The files of a directory of a walked tree: damaged in every page, or
\* not to be opened.
WalkFile(f, v) ==
  [name |-> f.name,
   node |-> IF v = "noopen" THEN RegNode(FALSE, <<>>, 0, -1)
            ELSE RegNode(TRUE, MkPages(f.segno, [i \in 1..Min(2, MaxPages) |-> "bad"]), 0, -1)]

FileCombos ==
  { {},
    {WalkFile(N5, "bad")},
    {WalkFile(N5, "noopen")},
    {WalkFile(N5, "bad"), WalkFile(N7_1, "bad")},
    {WalkFile(N5, "noopen"), WalkFile(N7_1, "bad")} }

\* Every tree below path with at most depth levels of subdirectories, as
\* sets of [path, node], in every order a directory can list its entries.
RECURSIVE DirTrees(_, _)
DirTrees(path, depth) ==
  LET subs == {[names |-> {}, entries |-> {}]}
              \cup (IF depth > 0
                    THEN {[names |-> {NameA}, entries |-> t] :
                            t \in DirTrees(Append(path, NameA), depth - 1)}
                    ELSE {})
  IN  {{[path |-> path, node |-> DirNode(<<DOT, DOTDOT>>, FALSE)]}}
      \cup UNION { UNION {
             { {[path |-> path, node |-> DirNode(<<DOT, DOTDOT>> \o order, TRUE)]}
               \cup {[path |-> Append(path, f.name), node |-> f.node] : f \in fc}
               \cup sub.entries :
               order \in Perms({f.name : f \in fc} \cup sub.names) } :
             sub \in subs } : fc \in FileCombos }

\* The directories above base.
Above(baseThere) ==
  { [path |-> <<>>, node |-> DirNode(<<DOT, DOTDOT, NameD>>, TRUE)],
    [path |-> <<NameD>>,
     node |-> DirNode(IF baseThere THEN <<DOT, DOTDOT, NameBase>> ELSE <<DOT, DOTDOT>>,
                      TRUE)] }

\* Trees of every shape, their files of two kinds.
WalkWorlds == {Above(TRUE) \cup t : t \in DirTrees(BasePath, MaxDepth)}

\* One tree, one of its files of every name and content.
FileWorlds ==
  UNION { { Above(TRUE)
            \cup { [path |-> BasePath,
                    node |-> DirNode(<<DOT, DOTDOT, f.name, NameL, NameA>>, TRUE)],
                   [path |-> Append(BasePath, f.name), node |-> c],
                   [path |-> Append(BasePath, NameL), node |-> OtherNode],
                   [path |-> Append(BasePath, NameA),
                    node |-> DirNode(<<DOT, DOTDOT, N5.name>>, TRUE)],
                   [path |-> BasePath \o <<NameA, N5.name>>,
                    node |-> RegNode(TRUE, MkPages(0, <<"good">>), 0, -1)] } :
            c \in Contents(f.segno) } : f \in FileNames }

\* base is no directory, or is not there.
RootWorlds ==
  { Above(FALSE),
    Above(TRUE) \cup {[path |-> BasePath, node |-> RegNode(TRUE, <<>>, 0, -1)]},
    Above(TRUE) \cup {[path |-> BasePath, node |-> OtherNode]} }

MkFs(entries) ==
  [p \in {e.path : e \in entries} |-> (CHOOSE e \in entries : e.path = p).node]

\* -D /d and -D d/ (from the root directory).
OptArgs == { <<"/", "d">>, <<"d", "/">> }

InitIn(worlds) ==
  /\ \E w \in worlds : fs = MkFs(w)
  /\ optarg \in OptArgs
  /\ datadir = <<>>
  /\ cwd = StartDir
  /\ pc = "main"
  /\ stack = <<>>
  /\ seg = NoSeg
  /\ nfd = 0
  /\ ndir = 0
  /\ total = 0
  /\ status = -1
  /\ out = ""
  /\ log = <<>>
  /\ run = 1
  /\ prev = 0

Init == InitIn(WalkWorlds \cup FileWorlds \cup RootWorlds)

Next ==
  \/ Main
  \/ OpenDir
  \/ ReadDir
  \/ SegFile
  \/ Read
  \/ Close
  \/ Return
  \/ Report

Spec == Init /\ [][Next]_vars

\* The same tree run again after the file system lists one of its
\* directories in another order.
Relist ==
  /\ pc = "exit"
  /\ run = 1
  /\ \E p \in {q \in DOMAIN fs : Kind(q) = "dir" /\ Len(q) >= Len(BasePath)} :
       \E order \in Perms({fs[p].listing[i] : i \in 3..Len(fs[p].listing)}) :
         fs' = [fs EXCEPT ![p].listing = <<DOT, DOTDOT>> \o order]
  /\ run' = 2
  /\ prev' = total
  /\ datadir' = <<>>
  /\ cwd' = StartDir
  /\ pc' = "main"
  /\ stack' = <<>>
  /\ seg' = NoSeg
  /\ total' = 0
  /\ status' = -1
  /\ out' = ""
  /\ log' = <<>>
  /\ UNCHANGED <<optarg, nfd, ndir>>

InitOrder == InitIn(WalkWorlds)

NextOrder == Next \/ Relist

SpecOrder == InitOrder /\ [][NextOrder]_vars

\* ---------------------------------------------------------------- claims

IsUnder(p, dir) == Len(p) > Len(dir) /\ SubSeq(p, 1, Len(dir)) = dir

RegFilesUnder(dir) == {p \in DOMAIN fs : IsUnder(p, dir) /\ Kind(p) = "reg"}

DirsFrom(dir) == {p \in DOMAIN fs : (p = dir \/ IsUnder(p, dir)) /\ Kind(p) = "dir"}

CountOf(p) == ScanSegmentFile(Last(p), p)

RECURSIVE SumCounts(_)
SumCounts(S) ==
  IF S = {} THEN 0
  ELSE LET x == CHOOSE y \in S : TRUE IN CountOf(x) + SumCounts(S \ {x})

Parent(p) == SubSeq(p, 1, Len(p) - 1)

RootIsDir == Exists(BasePath) /\ Kind(BasePath) = "dir"

Walked == pc = "exit" /\ out # "ERROR: not a directory"

\* Every page check made so far, with the name of its file and its index.
ChecksOf(name, checks) ==
  {[name |-> name, i |-> i - 1, c |-> checks[i]] : i \in 1..Len(checks)}

AllChecks ==
  ChecksOf(seg.filename, seg.checks)
  \cup UNION {ChecksOf(log[k].name, log[k].checks) : k \in 1..Len(log)}

\* C1: over a tree whose directories can all be listed, scan_directory
\* returns the sum of scan_segmentfile's counts of the regular files of the
\* subtree, each scanned once and in the directory that lists it.
C1_TotalIsSumOfFiles ==
  (Walked /\ RootIsDir /\ \A d \in DirsFrom(BasePath) : fs[d].listable)
  => /\ total = SumCounts(RegFilesUnder(BasePath))
     /\ \A p \in RegFilesUnder(BasePath) :
          Cardinality({k \in 1..Len(log) :
                         log[k].lister = Parent(p) /\ log[k].name = Last(p)}) = 1
     /\ \A k \in 1..Len(log) :
          log[k].how = "scanned" => log[k].path = Append(log[k].lister, log[k].name)

\* C4: the total of a tree is the same in whatever order a directory lists
\* its entries.
C4_OrderInvariant == (run = 2 /\ Walked) => total = prev

\* The position of name in a listing.
PosIn(listing, name) == CHOOSE i \in 1..Len(listing) : listing[i] = name

\* C5: a segment file that cannot be opened counts 1, and every regular
\* file listed after it in the same directory is scanned there and adds its
\* own count.
C5_OpenFailureThenSiblings ==
  Walked =>
    \A k \in 1..Len(log) :
      log[k].how = "openfail" =>
        /\ log[k].result = 1
        /\ LET listing == fs[log[k].lister].listing
           IN  \A j \in (PosIn(listing, log[k].name) + 1)..Len(listing) :
                 LET p == Append(log[k].lister, listing[j])
                 IN  Kind(p) = "reg" =>
                       \E m \in (k + 1)..Len(log) :
                         /\ log[m].lister = log[k].lister
                         /\ log[m].name = listing[j]
                         /\ log[m].how = "scanned" => log[m].path = p
                         /\ log[m].result = CountOf(p)

\* C6: a file one of whose reads failed is counted as at least 1.
C6_ReadErrorCounted ==
  \A k \in 1..Len(log) :
    (log[k].how = "scanned" /\ Last(log[k].reads) = -1) => log[k].result >= 1

Hits(checks) == Cardinality({i \in 1..Len(checks) : checks[i].corrupt})

\* C7: a read of 0 < n < BLCKSZ bytes adds exactly 1 with no checksum
\* computed and ends the reads of the file; a read of 0 bytes ends them
\* adding nothing; only full pages are checked.
C7_ShortRead ==
  /\ \A i \in 1..(Len(seg.reads) - 1) : seg.reads[i] = BLCKSZ
  /\ pc = "read" => \A i \in 1..Len(seg.reads) : seg.reads[i] = BLCKSZ
  /\ Len(seg.checks) = Cardinality({i \in 1..Len(seg.reads) : seg.reads[i] = BLCKSZ})
  /\ \A k \in 1..Len(log) :
       log[k].how = "scanned" =>
         LET e == log[k]
             n == Last(e.reads)
         IN  /\ \A i \in 1..(Len(e.reads) - 1) : e.reads[i] = BLCKSZ
             /\ n # BLCKSZ
             /\ Len(e.checks) = Len(e.reads) - 1
             /\ (0 < n /\ n < BLCKSZ) => e.result = Hits(e.checks) + 1
             /\ n = 0 => e.result = Hits(e.checks)

\* A file of a damaged full page and a partial page at its end was scanned.
C7_Witness ==
  \E k \in 1..Len(log) :
    /\ log[k].how = "scanned"
    /\ Len(log[k].reads) >= 2
    /\ Last(log[k].reads) = BLCKSZ - 1
    /\ log[k].result = Hits(log[k].checks) + 1
    /\ Hits(log[k].checks) >= 1

ForkName(name) ==
  \/ strstr(name, <<"_", "f", "s", "m">>)
  \/ strstr(name, <<"_", "v", "m">>)
  \/ name = PG_INTERNAL_INIT

\* C8: no page of a free space map, visibility map or pg_internal.init file
\* is checksummed, and such a file adds 0.
C8_ForksSkipped ==
  /\ ForkName(seg.filename) => pc \notin {"read", "close"}
  /\ \A k \in 1..Len(log) :
       ForkName(log[k].name) => (log[k].checks = <<>> /\ log[k].result = 0)

\* C9: when the root path names no directory the run ends with failure
\* status and does not report that no corruption was found.
C9_RootNotDirectoryFails ==
  (pc = "exit" /\ ~RootIsDir) => (status = 1 /\ out # "NO CORRUPTION FOUND")

\* C10: at most one file descriptor is open, and only inside the read loop
\* of scan_segmentfile; the DIR handles open are those of the frames of
\* scan_directory that are inside their readdir loop; none is open when the
\* walk is over.
C10_HandlesReleased ==
  /\ nfd = (IF pc \in {"read", "close"} THEN 1 ELSE 0)
  /\ ndir = (IF pc \in {"opendir", "ret"} THEN Len(stack) - 1 ELSE Len(stack))
  /\ pc \in {"report", "exit"} => (nfd = 0 /\ ndir = 0 /\ stack = <<>>)

\* A file of a subdirectory has been read to its end and is about to be
\* closed, after another file was scanned and closed.
C10_Witness ==
  /\ pc = "close"
  /\ Len(stack) = 2
  /\ nfd = 1
  /\ ndir = 2
  /\ \E k \in 1..Len(log) : log[k].how = "scanned"

\* C3: a page whose stored checksum is 0 is not corrupted, and a page whose
\* stored checksum is not 0 is corrupted exactly when it differs from the
\* checksum of the page at the block number it was checked at.
C3_Classification ==
  \A x \in AllChecks :
    LET stored == x.c.page.pd_checksum
    IN  /\ stored = 0 => ~x.c.corrupt
        /\ stored # 0 => (x.c.corrupt <=> stored # pg_checksum_page(x.c.page, x.c.blk))

\* A file with an unset page and a damaged page was checked, after a file
\* with a page whose checksum matches.
C3_Witness ==
  /\ \E x \in AllChecks : x.c.page.pd_checksum = 0 /\ ~x.c.corrupt
  /\ \E x \in AllChecks : x.c.page.pd_checksum # 0 /\ x.c.corrupt
  /\ \E x \in AllChecks : x.c.page.pd_checksum # 0 /\ ~x.c.corrupt

\* The number of decimal digits a name ends in.
RECURSIVE DigitsAtEnd(_)
DigitsAtEnd(name) ==
  IF name # <<>> /\ isdigit(Last(name))
  THEN 1 + DigitsAtEnd(SubSeq(name, 1, Len(name) - 1))
  ELSE 0

RECURSIVE Decimal(_)
Decimal(digits) ==
  IF digits = <<>> THEN 0
  ELSE 10 * Decimal(SubSeq(digits, 1, Len(digits) - 1)) + DigitVal(Last(digits))

\* The value of the trailing run of decimal digits of a name.
TrailingValue(name) ==
  Decimal(SubSeq(name, Len(name) - DigitsAtEnd(name) + 1, Len(name)))

AmendedOrdinal(name) ==
  IF DigitsAtEnd(name) = Len(name) THEN 0 ELSE TrailingValue(name)

====
